---- MODULE Spec2Model ----
(***************************************************************************)
(* Model of solarRouter.ino (Linky standard mode, STANDARD_TIC defined):   *)
(* the TIC frame decoder isNewMsgInBuffer / isChecksumGood / getData, the  *)
(* dimmer controller processElectricalConsumption / processDimmerPwrIndex  *)
(* and the main loop that joins them.                                      *)
(*                                                                         *)
(* Bytes are naturals 0..255.  The two energy totals are C floats holding  *)
(* Wh; here they are kept exactly, in watt-milliseconds (Wh * 3600000),    *)
(* so that the division by 3600000 loses nothing.                          *)
(***************************************************************************)
EXTENDS Integers, Sequences, FiniteSets, TLC

\* ------------------------------------------------------------ constants

MAX_DIMMER_PWR_INDEX == 31
DIMMER_IDLE == 0
DIMMER_INCREMENTATION == 1
DIMMER_STABILIZED == 2
DIMMER_WAIT == 3
DIMMER_DECREMENTATION == 4
STABILIZED_TIMER == 60000
WDT_RESET == 120000
WDT_RESET_24H == 86400000
MAX_BUFFER_LENGTH == 20

WAIT_LF == 0
WAIT_C1 == 1
WAIT_C2 == 2
WAIT_C3 == 3
WAIT_C4 == 4
WAIT_C5 == 5
WAIT_C6 == 6
WAIT_SEPARATOR1 == 7
WAIT_D1 == 8
WAIT_D2 == 9
WAIT_D3 == 10
WAIT_D4 == 11
WAIT_D5 == 12
WAIT_SEPARATOR2 == 13
WAIT_CHECKSUM == 14
WAIT_CR == 15

NUL == 0
LF == 10
CR == 13
TAB == 9
SP == 32
FIELD_SEPARATOR == TAB

C1 == 83
C2 == 73
C3 == 78
C4 == 83
C5 == 84
C6 == 83
c1 == 115
c2 == 105
c3 == 110
c4 == 115
c5 == 116
c6 == 115

\* the build without STANDARD_TIC (historic mode): the label C1..C4, c1..c4 and
\* the field separator of the #else branches
H_C1 == 80
H_C2 == 65
H_C3 == 80
H_C4 == 80
H_c1 == 113
H_c2 == 97
H_c3 == 113
H_c4 == 113
H_FIELD_SEPARATOR == SP

\* ON_OFF_typedef of the dimmer library
OFF == "OFF"
ON == "ON"

\* dimmerPwr[i] = <<dimmer %, dimmer watt>>, indexed from 0 as in the source
dimmerPwr ==
    [i \in 0..(MAX_DIMMER_PWR_INDEX - 1) |->
        << <<0, 0>>, <<5, 32>>, <<10, 49>>, <<15, 72>>, <<20, 102>>, <<21, 108>>,
           <<22, 117>>, <<23, 121>>, <<25, 136>>, <<27, 151>>, <<30, 170>>,
           <<35, 211>>, <<37, 230>>, <<40, 245>>, <<43, 270>>, <<45, 283>>,
           <<47, 300>>, <<50, 317>>, <<53, 349>>, <<55, 353>>, <<57, 370>>,
           <<60, 385>>, <<63, 411>>, <<65, 419>>, <<67, 432>>, <<70, 440>>,
           <<75, 466>>, <<80, 479>>, <<85, 491>>, <<90, 494>>, <<97, 494>> >>[i + 1]]

\* dimmerPwr[i][0]: the dimmer percentage of table row i
Percent(i) == dimmerPwr[i][1]

\* dimmerPwr[i][1]: the approximate watts of table row i
Watts(i) == dimmerPwr[i][2]

\* --------------------------------------------------------------- bounds

\* the clock advances in steps of TickStep ms, MaxTicks times at most per boot
MaxTicks == 2
TickStep == 60000
\* frames stop arriving once the two energy totals together pass MaxEnergy W.ms
MaxEnergy == 1920000

\* ---------------------------------------------------------------- state

VARIABLES
    msgState,             \* decoder position, WAIT_LF .. WAIT_CR
    buff_index,           \* number of captured bytes
    buffer,               \* char buffer[MAX_BUFFER_LENGTH], indexed from 0
    dimmerState,          \* controller state, DIMMER_IDLE .. DIMMER_DECREMENTATION
    dimmerPwrIndex,       \* current row of dimmerPwr
    dimmerStabilized,     \* millis() when DIMMER_STABILIZED was entered
    previous,             \* millis() of the last decision
    cumulRoutedPowerWh,   \* routed energy, in W.ms
    cumulNetworkPowerWh,  \* network energy, in W.ms
    dimmer,               \* the dimmerLamp object: [state, power]
    millis,               \* the board's clock, ms since boot
    linky,                \* the bytes received on the link and not yet read
    frame,                \* the burst of bytes that last arrived on the link
    start,                \* msgState when that burst arrived
    stale,                \* the reading the buffer held when a burst last reached the decoder alone
    inChar,               \* the last character passed to isNewMsgInBuffer
    ret,                  \* what that call returned
    was,                  \* msgState before that call
    old                   \* dimmerState and dimmerPwrIndex before the last decision

decoderVars == <<msgState, buff_index, buffer>>
controlVars == <<dimmerState, dimmerPwrIndex, dimmerStabilized, previous,
                 cumulRoutedPowerWh, cumulNetworkPowerWh, dimmer>>
vars == <<msgState, buff_index, buffer, dimmerState, dimmerPwrIndex,
          dimmerStabilized, previous, cumulRoutedPowerWh, cumulNetworkPowerWh,
          dimmer, millis, linky, frame, start, stale, inChar, ret, was, old>>
linkVars == <<linky, frame, start, stale>>
callVars == <<inChar, ret, was, old>>

\* -------------------------------------------------------------- decoder

\* the decoder's globals as one value
Decoder == [msgState |-> msgState, buff_index |-> buff_index, buffer |-> buffer]

\* Capture with the index advanced before the write
Capture_preinc(d, c, next) ==
    [msgState |-> next,
     buff_index |-> d.buff_index + 1,
     buffer |-> [d.buffer EXCEPT ![d.buff_index + 1] = c]]

\* Capture without buff_index++
Capture_noAdvance(d, c, next) ==
    [msgState |-> next,
     buff_index |-> d.buff_index,
     buffer |-> [d.buffer EXCEPT ![d.buff_index] = c]]

\* buffer[buff_index] = c; buff_index++; msgState = next
Capture(d, c, next) ==
    [msgState |-> next,
     buff_index |-> d.buff_index + 1,
     buffer |-> [d.buffer EXCEPT ![d.buff_index] = c]]

\* Resync that waits for the first label character instead of the line feed
Resync_toC1(d) ==
    [msgState |-> WAIT_C1, buff_index |-> 0, buffer |-> d.buffer]

\* Resync that forgets buff_index
Resync_keepIndex(d) ==
    [msgState |-> WAIT_LF, buff_index |-> d.buff_index, buffer |-> d.buffer]

\* msgState = WAIT_LF; buff_index = 0
Resync(d) ==
    [msgState |-> WAIT_LF, buff_index |-> 0, buffer |-> d.buffer]

\* sum of buffer[0 .. n-1]; an unsigned int in the source, far from wrapping
\* (at most MAX_BUFFER_LENGTH bytes of at most 127 each)
RECURSIVE SumBytes(_, _)
SumBytes(buf, n) ==
    IF n <= 0 THEN 0 ELSE SumBytes(buf, n - 1) + buf[n - 1]

\* isChecksumGood in the build without STANDARD_TIC: the sum covers
\* buffer[0 .. buff_index-3]
isChecksumGoodHistoric(buf, idx) ==
    IF idx = 0 THEN FALSE
    ELSE buf[idx - 1] = ((SumBytes(buf, idx - 2) % 64) + 32) % 256

\* isChecksumGood with the coverage of historic mode
isChecksumGood_historic(buf, idx) == isChecksumGoodHistoric(buf, idx)

\* standard mode: the sum covers buffer[0 .. buff_index-2]
isChecksumGood(buf, idx) ==
    IF idx = 0 THEN FALSE
    ELSE buf[idx - 1] = ((SumBytes(buf, idx - 1) % 64) + 32) % 256

\* the if / else if chain of isNewMsgInBuffer on msgState, for the character c
matchChar(d, c) ==
    LET Expect(ok, next) ==
            IF ok THEN [dec |-> Capture(d, c, next), ret |-> FALSE]
            ELSE [dec |-> Resync(d), ret |-> FALSE]
        IsDigit == (c >= 48) /\ (c <= 57)
    IN  IF (d.msgState = WAIT_LF) /\ (c = LF) THEN
            [dec |-> [msgState |-> WAIT_C1, buff_index |-> 0, buffer |-> d.buffer],
             ret |-> FALSE]
        ELSE IF d.msgState = WAIT_C1 THEN Expect((c = C1) \/ (c = c1), WAIT_C2)
        ELSE IF d.msgState = WAIT_C2 THEN Expect((c = C2) \/ (c = c2), WAIT_C3)
        ELSE IF d.msgState = WAIT_C3 THEN Expect((c = C3) \/ (c = c3), WAIT_C4)
        ELSE IF d.msgState = WAIT_C4 THEN Expect((c = C4) \/ (c = c4), WAIT_C5)
        ELSE IF d.msgState = WAIT_C5 THEN Expect((c = C5) \/ (c = c5), WAIT_C6)
        ELSE IF d.msgState = WAIT_C6 THEN Expect((c = C6) \/ (c = c6), WAIT_SEPARATOR1)
        ELSE IF d.msgState = WAIT_SEPARATOR1 THEN Expect(c = FIELD_SEPARATOR, WAIT_D1)
        ELSE IF d.msgState = WAIT_D1 THEN Expect(IsDigit, WAIT_D2)
        ELSE IF d.msgState = WAIT_D2 THEN Expect(IsDigit, WAIT_D3)
        ELSE IF d.msgState = WAIT_D3 THEN Expect(IsDigit, WAIT_D4)
        ELSE IF d.msgState = WAIT_D4 THEN Expect(IsDigit, WAIT_D5)
        ELSE IF d.msgState = WAIT_D5 THEN Expect(IsDigit, WAIT_SEPARATOR2)
        ELSE IF d.msgState = WAIT_SEPARATOR2 THEN Expect(c = FIELD_SEPARATOR, WAIT_CHECKSUM)
        ELSE IF d.msgState = WAIT_CHECKSUM THEN
            [dec |-> Capture(d, c, WAIT_CR), ret |-> FALSE]
        ELSE IF d.msgState = WAIT_CR THEN
            [dec |-> Resync(d),
             ret |-> (c = CR) /\ isChecksumGood(d.buffer, d.buff_index)]
        ELSE [dec |-> d, ret |-> FALSE]

\* isNewMsgInBuffer without the early return on NUL
isNewMsgInBuffer_noNul(d, c) == matchChar(d, c)

\* one call of isNewMsgInBuffer(c) on decoder d: the new decoder and the result
isNewMsgInBuffer(d, c) ==
    IF c = NUL THEN [dec |-> d, ret |-> FALSE] ELSE matchChar(d, c)

\* the if / else if chain of isNewMsgInBuffer in the build without STANDARD_TIC:
\* four label characters, then the separator
matchCharHistoric(d, c) ==
    LET Expect(ok, next) ==
            IF ok THEN [dec |-> Capture(d, c, next), ret |-> FALSE]
            ELSE [dec |-> Resync(d), ret |-> FALSE]
        IsDigit == (c >= 48) /\ (c <= 57)
    IN  IF (d.msgState = WAIT_LF) /\ (c = LF) THEN
            [dec |-> [msgState |-> WAIT_C1, buff_index |-> 0, buffer |-> d.buffer],
             ret |-> FALSE]
        ELSE IF d.msgState = WAIT_C1 THEN Expect((c = H_C1) \/ (c = H_c1), WAIT_C2)
        ELSE IF d.msgState = WAIT_C2 THEN Expect((c = H_C2) \/ (c = H_c2), WAIT_C3)
        ELSE IF d.msgState = WAIT_C3 THEN Expect((c = H_C3) \/ (c = H_c3), WAIT_C4)
        ELSE IF d.msgState = WAIT_C4 THEN Expect((c = H_C4) \/ (c = H_c4), WAIT_SEPARATOR1)
        ELSE IF d.msgState = WAIT_SEPARATOR1 THEN Expect(c = H_FIELD_SEPARATOR, WAIT_D1)
        ELSE IF d.msgState = WAIT_D1 THEN Expect(IsDigit, WAIT_D2)
        ELSE IF d.msgState = WAIT_D2 THEN Expect(IsDigit, WAIT_D3)
        ELSE IF d.msgState = WAIT_D3 THEN Expect(IsDigit, WAIT_D4)
        ELSE IF d.msgState = WAIT_D4 THEN Expect(IsDigit, WAIT_D5)
        ELSE IF d.msgState = WAIT_D5 THEN Expect(IsDigit, WAIT_SEPARATOR2)
        ELSE IF d.msgState = WAIT_SEPARATOR2 THEN
            Expect(c = H_FIELD_SEPARATOR, WAIT_CHECKSUM)
        ELSE IF d.msgState = WAIT_CHECKSUM THEN
            [dec |-> Capture(d, c, WAIT_CR), ret |-> FALSE]
        ELSE IF d.msgState = WAIT_CR THEN
            [dec |-> Resync(d),
             ret |-> (c = CR) /\ isChecksumGoodHistoric(d.buffer, d.buff_index)]
        ELSE [dec |-> d, ret |-> FALSE]

\* one call of isNewMsgInBuffer(c) in the build without STANDARD_TIC
isNewMsgInBufferHistoric(d, c) ==
    IF c = NUL THEN [dec |-> d, ret |-> FALSE] ELSE matchCharHistoric(d, c)

\* String::toInt on the characters s (a sequence): the value of the leading digits
RECURSIVE toInt(_, _)
toInt(s, acc) ==
    IF s = <<>> \/ Head(s) < 48 \/ Head(s) > 57 THEN acc
    ELSE toInt(Tail(s), acc * 10 + (Head(s) - 48))

\* getData with the offsets of historic mode: buffer[5 .. 9]
getData_historic(buf) ==
    toInt(<<buf[5], buf[6], buf[7], buf[8], buf[9]>>, 0)

\* standard mode: the five characters buffer[7 .. 11]
getData(buf) ==
    toInt(<<buf[7], buf[8], buf[9], buf[10], buf[11]>>, 0)

\* ----------------------------------------------------------- controller

\* the controller's globals as one value
Control ==
    [dimmerState |-> dimmerState, dimmerPwrIndex |-> dimmerPwrIndex,
     dimmerStabilized |-> dimmerStabilized, previous |-> previous,
     cumulRoutedPowerWh |-> cumulRoutedPowerWh,
     cumulNetworkPowerWh |-> cumulNetworkPowerWh, dimmer |-> dimmer]

\* dimmerLamp::getPower: the stored power while ON, 0 while OFF
getPower(dm) == IF dm.state = ON THEN dm.power ELSE 0

\* Actuate without the OFF branch of setState
Actuate_alwaysOn(dm, next) ==
    [state |-> ON, power |-> Percent(next)]

\* Actuate without the call of setPower
Actuate_stateOnly(dm, next) ==
    [dm EXCEPT !.state = IF Watts(next) = 0 THEN OFF ELSE ON]

\* dimmer.setState(..); if (dimmer.getPower() != pct) dimmer.setPower(pct)
Actuate(dm, next) ==
    LET st == IF Watts(next) = 0 THEN OFF ELSE ON
        d1 == [dm EXCEPT !.state = st]
    IN  IF getPower(d1) # Percent(next) THEN [d1 EXCEPT !.power = Percent(next)]
        ELSE d1

\* Elapsed with the operands exchanged
Elapsed_backwards(k, now) == k.previous - now

\* (now - previous): unsigned long in the source; previous is an earlier millis()
\* of the same boot and the board reboots after WDT_RESET_24H, so it never wraps
Elapsed(k, now) == now - k.previous

\* the energy totals after a decision on reading r at time now
Routed(k, r, now) ==
    IF r = 0 THEN k.cumulRoutedPowerWh + Watts(k.dimmerPwrIndex) * Elapsed(k, now)
    ELSE k.cumulRoutedPowerWh

Network(k, r, now) ==
    IF (r # 0) /\ (Watts(k.dimmerPwrIndex) > 0)
    THEN k.cumulNetworkPowerWh + r * Elapsed(k, now)
    ELSE k.cumulNetworkPowerWh

\* processDimmerPwrIndex with dimmerPwrIndex assigned before the totals are updated
processDimmerPwrIndex_late(k, r, now, next) ==
    [k EXCEPT !.cumulRoutedPowerWh = Routed([k EXCEPT !.dimmerPwrIndex = next], r, now),
              !.cumulNetworkPowerWh = Network([k EXCEPT !.dimmerPwrIndex = next], r, now),
              !.previous = now,
              !.dimmerPwrIndex = next,
              !.dimmer = Actuate(k.dimmer, next)]

\* processDimmerPwrIndex(nextDimmerPwrIndex), with getData() = r and millis() = now
processDimmerPwrIndex(k, r, now, next) ==
    [k EXCEPT !.cumulRoutedPowerWh = Routed(k, r, now),
              !.cumulNetworkPowerWh = Network(k, r, now),
              !.previous = now,
              !.dimmerPwrIndex = next,
              !.dimmer = Actuate(k.dimmer, next)]

\* the dwell test with >= instead of >
dwellOver_ge(k, now) == (now - k.dimmerStabilized) >= STABILIZED_TIMER

\* (millis() - dimmerStabilized) > STABILIZED_TIMER; unsigned long in the source,
\* dimmerStabilized being an earlier millis() of the same boot
dwellOver(k, now) == (now - k.dimmerStabilized) > STABILIZED_TIMER

\* Decide with the table watts compared by >= instead of >
Decide_ge(k, r, now) ==
    LET idx == k.dimmerPwrIndex
        keep(st, nx) == [state |-> st, next |-> nx, stab |-> k.dimmerStabilized]
        down == IF idx > 0 THEN idx - 1 ELSE 0
    IN  IF k.dimmerState = DIMMER_IDLE THEN
            IF r > 0 THEN keep(DIMMER_IDLE, 0)
            ELSE keep(DIMMER_INCREMENTATION, 1)
        ELSE IF k.dimmerState = DIMMER_INCREMENTATION THEN
            IF r = 0 THEN keep(DIMMER_INCREMENTATION, idx + 1)
            ELSE IF Watts(idx) >= r THEN keep(DIMMER_WAIT, down)
            ELSE keep(DIMMER_IDLE, 0)
        ELSE IF k.dimmerState = DIMMER_WAIT THEN
            keep(DIMMER_DECREMENTATION, idx)
        ELSE IF k.dimmerState = DIMMER_DECREMENTATION THEN
            IF r = 0 THEN [state |-> DIMMER_STABILIZED, next |-> idx, stab |-> now]
            ELSE IF Watts(idx) >= r THEN keep(DIMMER_WAIT, down)
            ELSE keep(DIMMER_IDLE, 0)
        ELSE IF k.dimmerState = DIMMER_STABILIZED THEN
            IF dwellOver(k, now)
            THEN keep(DIMMER_INCREMENTATION, idx)
            ELSE IF r = 0 THEN keep(DIMMER_STABILIZED, idx)
            ELSE IF Watts(idx) >= r THEN keep(DIMMER_WAIT, down)
            ELSE keep(DIMMER_IDLE, 0)
        ELSE keep(k.dimmerState, 0)

\* Decide with Wait held for as long as the reading is not 0
Decide_waitHolds(k, r, now) ==
    LET idx == k.dimmerPwrIndex
        keep(st, nx) == [state |-> st, next |-> nx, stab |-> k.dimmerStabilized]
        down == IF idx > 0 THEN idx - 1 ELSE 0
    IN  IF k.dimmerState = DIMMER_IDLE THEN
            IF r > 0 THEN keep(DIMMER_IDLE, 0)
            ELSE keep(DIMMER_INCREMENTATION, 1)
        ELSE IF k.dimmerState = DIMMER_INCREMENTATION THEN
            IF r = 0 THEN keep(DIMMER_INCREMENTATION, idx + 1)
            ELSE IF Watts(idx) > r THEN keep(DIMMER_WAIT, down)
            ELSE keep(DIMMER_IDLE, 0)
        ELSE IF k.dimmerState = DIMMER_WAIT THEN
            IF r = 0 THEN keep(DIMMER_DECREMENTATION, idx) ELSE keep(DIMMER_WAIT, idx)
        ELSE IF k.dimmerState = DIMMER_DECREMENTATION THEN
            IF r = 0 THEN [state |-> DIMMER_STABILIZED, next |-> idx, stab |-> now]
            ELSE IF Watts(idx) > r THEN keep(DIMMER_WAIT, down)
            ELSE keep(DIMMER_IDLE, 0)
        ELSE IF k.dimmerState = DIMMER_STABILIZED THEN
            IF dwellOver(k, now)
            THEN keep(DIMMER_INCREMENTATION, idx)
            ELSE IF r = 0 THEN keep(DIMMER_STABILIZED, idx)
            ELSE IF Watts(idx) > r THEN keep(DIMMER_WAIT, down)
            ELSE keep(DIMMER_IDLE, 0)
        ELSE keep(k.dimmerState, 0)

\* Decide with the index left where it is on the way to Wait
Decide_noDown(k, r, now) ==
    LET idx == k.dimmerPwrIndex
        keep(st, nx) == [state |-> st, next |-> nx, stab |-> k.dimmerStabilized]
        down == idx
    IN  IF k.dimmerState = DIMMER_IDLE THEN
            IF r > 0 THEN keep(DIMMER_IDLE, 0)
            ELSE keep(DIMMER_INCREMENTATION, 1)
        ELSE IF k.dimmerState = DIMMER_INCREMENTATION THEN
            IF r = 0 THEN keep(DIMMER_INCREMENTATION, idx + 1)
            ELSE IF Watts(idx) > r THEN keep(DIMMER_WAIT, down)
            ELSE keep(DIMMER_IDLE, 0)
        ELSE IF k.dimmerState = DIMMER_WAIT THEN
            keep(DIMMER_DECREMENTATION, idx)
        ELSE IF k.dimmerState = DIMMER_DECREMENTATION THEN
            IF r = 0 THEN [state |-> DIMMER_STABILIZED, next |-> idx, stab |-> now]
            ELSE IF Watts(idx) > r THEN keep(DIMMER_WAIT, down)
            ELSE keep(DIMMER_IDLE, 0)
        ELSE IF k.dimmerState = DIMMER_STABILIZED THEN
            IF dwellOver(k, now)
            THEN keep(DIMMER_INCREMENTATION, idx)
            ELSE IF r = 0 THEN keep(DIMMER_STABILIZED, idx)
            ELSE IF Watts(idx) > r THEN keep(DIMMER_WAIT, down)
            ELSE keep(DIMMER_IDLE, 0)
        ELSE keep(k.dimmerState, 0)

\* the state, the index and the stabilisation time chosen on reading r
Decide(k, r, now) ==
    LET idx == k.dimmerPwrIndex
        keep(st, nx) == [state |-> st, next |-> nx, stab |-> k.dimmerStabilized]
        down == IF idx > 0 THEN idx - 1 ELSE 0
    IN  IF k.dimmerState = DIMMER_IDLE THEN
            IF r > 0 THEN keep(DIMMER_IDLE, 0)
            ELSE keep(DIMMER_INCREMENTATION, 1)
        ELSE IF k.dimmerState = DIMMER_INCREMENTATION THEN
            IF r = 0 THEN keep(DIMMER_INCREMENTATION, idx + 1)
            ELSE IF Watts(idx) > r THEN keep(DIMMER_WAIT, down)
            ELSE keep(DIMMER_IDLE, 0)
        ELSE IF k.dimmerState = DIMMER_WAIT THEN
            keep(DIMMER_DECREMENTATION, idx)
        ELSE IF k.dimmerState = DIMMER_DECREMENTATION THEN
            IF r = 0 THEN [state |-> DIMMER_STABILIZED, next |-> idx, stab |-> now]
            ELSE IF Watts(idx) > r THEN keep(DIMMER_WAIT, down)
            ELSE keep(DIMMER_IDLE, 0)
        ELSE IF k.dimmerState = DIMMER_STABILIZED THEN
            IF dwellOver(k, now)
            THEN keep(DIMMER_INCREMENTATION, idx)
            ELSE IF r = 0 THEN keep(DIMMER_STABILIZED, idx)
            ELSE IF Watts(idx) > r THEN keep(DIMMER_WAIT, down)
            ELSE keep(DIMMER_IDLE, 0)
        ELSE keep(k.dimmerState, 0)

\* Protect with the limit one row too low
Protect_low(next) ==
    IF next >= MAX_DIMMER_PWR_INDEX - 1 THEN MAX_DIMMER_PWR_INDEX - 2 ELSE next

\* "Some protection": the index never passes the last row of the table
Protect(next) ==
    IF next >= MAX_DIMMER_PWR_INDEX THEN MAX_DIMMER_PWR_INDEX - 1 ELSE next

\* processElectricalConsumption with the protection applied to the dimmer command
\* only: the index kept is the unprotected one
processElectricalConsumption_raw(k, r, now) ==
    LET d == Decide(k, r, now)
    IN  [processDimmerPwrIndex(
             [k EXCEPT !.dimmerState = d.state, !.dimmerStabilized = d.stab],
             r, now, Protect(d.next))
         EXCEPT !.dimmerPwrIndex = d.next]

\* processElectricalConsumption(), with getData() = r and millis() = now
processElectricalConsumption(k, r, now) ==
    LET d == Decide(k, r, now)
    IN  processDimmerPwrIndex(
            [k EXCEPT !.dimmerState = d.state, !.dimmerStabilized = d.stab],
            r, now, Protect(d.next))

\* ----------------------------------------------------------------- loop

\* resetBoard(): the board is left to the watchdog, which reboots it
resetDue == ((millis - previous) >= WDT_RESET) \/ (millis > WDT_RESET_24H)

\* loopByte with the controller run on every byte
loopByte_always(d, k, val, now) ==
    LET r == isNewMsgInBuffer(d, val % 128)
    IN  [dec |-> r.dec,
         ctl |-> processElectricalConsumption(k, getData(r.dec.buffer), now),
         ret |-> r.ret]

\* the body of while (linky.available()) for one byte val read from the link:
\* the decoder, the controller and the result of isNewMsgInBuffer afterwards
loopByte(d, k, val, now) ==
    LET r == isNewMsgInBuffer(d, val % 128)
    IN  [dec |-> r.dec,
         ctl |-> IF r.ret
                 THEN processElectricalConsumption(k, getData(r.dec.buffer), now)
                 ELSE k,
         ret |-> r.ret]

\* --------------------------------------------------------------- inputs

\* the checksum the meter sends for the controlled characters cs
RECURSIVE SumSeq(_)
SumSeq(cs) == IF cs = <<>> THEN 0 ELSE Head(cs) + SumSeq(Tail(cs))

MeterChecksum(cs) == (SumSeq(cs) % 64) + 32

\* the five digit characters of the reading n, most significant first
Digits5(n) ==
    <<48 + ((n \div 10000) % 10), 48 + ((n \div 1000) % 10), 48 + ((n \div 100) % 10),
      48 + ((n \div 10) % 10), 48 + (n % 10)>>

\* the characters of a frame the checksum controls: label, TAB, data, TAB
Controlled(label, n) == label \o <<TAB>> \o Digits5(n) \o <<TAB>>

\* the frame <LF> label <TAB> data <TAB> checksum <CR> with checksum byte k
FrameWith(label, n, k) == <<LF>> \o Controlled(label, n) \o <<k, CR>>

\* the frame the meter sends for the reading n
Frame(label, n) == FrameWith(label, n, MeterChecksum(Controlled(label, n)))

SINSTS == <<C1, C2, C3, C4, C5, C6>>
sinsts == <<c1, c2, c3, c4, c5, c6>>
Labels == {SINSTS, sinsts, <<c1, C2, c3, C4, c5, C6>>}

\* the bytes fed to the decoder one at a time: control characters, 'X',
\* the letters of the label, 'i', and the digits '0' and '1'
Bytes == {NUL, LF, CR, TAB, 88, C1, C2, C3, C5, c2, 48, 49}

\* the right checksum for what the decoder holds, when it waits for one
DueChecksum ==
    IF msgState = WAIT_CHECKSUM
    THEN {MeterChecksum([i \in 1..buff_index |-> buffer[i - 1]])}
    ELSE {}

\* the bytes fed to the decoder of the build without STANDARD_TIC: control
\* characters, space, 'P', 'A', 'p', 'q' and the digit '0'
BytesHistoric == {NUL, LF, CR, SP, 80, 65, 112, 113, 48}

\* the right checksum of historic mode for what the decoder holds: the last
\* separator is not counted
DueChecksumHistoric ==
    IF msgState = WAIT_CHECKSUM
    THEN {MeterChecksum([i \in 1..(buff_index - 1) |-> buffer[i - 1]])}
    ELSE {}

\* the readings of the frames fed to the decoder alone
FrameReadings == {0, 123, 10000}
\* the checksum bytes a frame is sent with besides the right one
OtherChecksums == {NUL, LF, CR, 88}

ValidFrames == {Frame(l, n) : l \in Labels, n \in FrameReadings}
BadFrames == {FrameWith(SINSTS, 123, k) : k \in OtherChecksums}
\* a frame cut short after k bytes
CutFrames == {SubSeq(Frame(SINSTS, 10000), 1, k) : k \in 1..15}
DecoderBursts == ValidFrames \cup BadFrames \cup CutFrames \cup {<<88>>}

\* the readings of the frames the whole program receives
Readings == {0, 31, 50}
\* a frame whose bytes arrive with bit 7 set
HighBits(f) == [i \in 1..Len(f) |-> f[i] + 128]
LoopBursts ==
    {Frame(SINSTS, n) : n \in Readings}
        \cup {FrameWith(SINSTS, 0, 88), HighBits(Frame(SINSTS, 494))}

\* ------------------------------------------------------------- actions

Init ==
    /\ msgState = WAIT_LF
    /\ buff_index = 0
    /\ buffer = [i \in 0..(MAX_BUFFER_LENGTH - 1) |-> 0]
    /\ dimmerState = DIMMER_IDLE
    /\ dimmerPwrIndex = 0
    /\ dimmerStabilized = 0
    /\ previous = 0
    /\ cumulRoutedPowerWh = 0
    /\ cumulNetworkPowerWh = 0
    /\ dimmer = [state |-> OFF, power |-> 0]
    /\ millis = 0
    /\ linky = <<>>
    /\ frame = <<>>
    /\ start = WAIT_LF
    /\ stale = 0
    /\ inChar = NUL
    /\ ret = FALSE
    /\ was = WAIT_LF
    /\ old = [dimmerState |-> DIMMER_IDLE, dimmerPwrIndex |-> 0]

\* isNewMsgInBuffer(c) is called, and nothing else
Call(c) ==
    LET r == isNewMsgInBuffer(Decoder, c)
    IN  /\ msgState' = r.dec.msgState
        /\ buff_index' = r.dec.buff_index
        /\ buffer' = r.dec.buffer
        /\ inChar' = c
        /\ ret' = r.ret
        /\ was' = msgState
        /\ UNCHANGED <<controlVars, millis, old>>

\* a byte from outside is passed to isNewMsgInBuffer
FeedByte ==
    \E c \in Bytes \cup DueChecksum : Call(c) /\ UNCHANGED linkVars

\* a byte from outside is passed to isNewMsgInBuffer, build without STANDARD_TIC
FeedByteHistoric ==
    \E c \in BytesHistoric \cup DueChecksumHistoric :
        LET r == isNewMsgInBufferHistoric(Decoder, c)
        IN  /\ msgState' = r.dec.msgState
            /\ buff_index' = r.dec.buff_index
            /\ buffer' = r.dec.buffer
            /\ inChar' = c
            /\ ret' = r.ret
            /\ was' = msgState
            /\ UNCHANGED <<controlVars, millis, old, linkVars>>

\* a burst of bytes arrives for the decoder
FeedBurst ==
    /\ linky = <<>>
    /\ \E f \in DecoderBursts : linky' = f /\ frame' = f
    /\ start' = msgState
    /\ stale' = getData(buffer)
    /\ UNCHANGED <<decoderVars, controlVars, millis, callVars>>

\* the next byte of the burst is passed to isNewMsgInBuffer
FeedNext ==
    /\ linky # <<>>
    /\ Call(Head(linky))
    /\ linky' = Tail(linky)
    /\ UNCHANGED <<frame, start, stale>>

\* a burst of bytes arrives on the link
Arrive ==
    /\ linky = <<>>
    /\ cumulRoutedPowerWh + cumulNetworkPowerWh <= MaxEnergy
    /\ \E f \in LoopBursts : linky' = f /\ frame' = f
    /\ start' = msgState
    /\ UNCHANGED <<decoderVars, controlVars, millis, callVars, stale>>

\* one turn of the while loop of loop(): a byte is read and processed
LoopByte ==
    /\ ~resetDue
    /\ linky # <<>>
    /\ LET s == loopByte(Decoder, Control, Head(linky), millis)
       IN  /\ msgState' = s.dec.msgState
           /\ buff_index' = s.dec.buff_index
           /\ buffer' = s.dec.buffer
           /\ dimmerState' = s.ctl.dimmerState
           /\ dimmerPwrIndex' = s.ctl.dimmerPwrIndex
           /\ dimmerStabilized' = s.ctl.dimmerStabilized
           /\ previous' = s.ctl.previous
           /\ cumulRoutedPowerWh' = s.ctl.cumulRoutedPowerWh
           /\ cumulNetworkPowerWh' = s.ctl.cumulNetworkPowerWh
           /\ dimmer' = s.ctl.dimmer
           /\ ret' = s.ret
           /\ old' = IF s.ret
                     THEN [dimmerState |-> dimmerState, dimmerPwrIndex |-> dimmerPwrIndex]
                     ELSE old
    /\ inChar' = Head(linky) % 128
    /\ was' = msgState
    /\ linky' = Tail(linky)
    /\ UNCHANGED <<millis, frame, start, stale>>

\* a pass of loop() in which resetBoard() hangs until the watchdog reboots the board
ResetBoard ==
    /\ resetDue
    /\ msgState' = WAIT_LF
    /\ buff_index' = 0
    /\ buffer' = [i \in 0..(MAX_BUFFER_LENGTH - 1) |-> 0]
    /\ dimmerState' = DIMMER_IDLE
    /\ dimmerPwrIndex' = 0
    /\ dimmerStabilized' = 0
    /\ previous' = 0
    /\ cumulRoutedPowerWh' = 0
    /\ cumulNetworkPowerWh' = 0
    /\ dimmer' = [state |-> OFF, power |-> 0]
    /\ millis' = 0
    /\ linky' = <<>>
    /\ frame' = <<>>
    /\ start' = WAIT_LF
    /\ stale' = 0
    /\ inChar' = NUL
    /\ ret' = FALSE
    /\ was' = WAIT_LF
    /\ old' = [dimmerState |-> DIMMER_IDLE, dimmerPwrIndex |-> 0]

\* time passes while the link is silent
Tick ==
    /\ linky = <<>>
    /\ millis + TickStep <= MaxTicks * TickStep
    /\ millis' = millis + TickStep
    /\ UNCHANGED <<decoderVars, controlVars, linkVars, callVars>>

\* the decoder alone, fed one byte at a time
NextDecoder == FeedByte
SpecDecoder == Init /\ [][NextDecoder]_vars

\* the decoder of the build without STANDARD_TIC, fed one byte at a time
NextHistoric == FeedByteHistoric
SpecHistoric == Init /\ [][NextHistoric]_vars

\* the decoder alone, fed bursts: frames, frames with a wrong checksum, cut frames
NextFrames == FeedBurst \/ FeedNext
SpecFrames == Init /\ [][NextFrames]_vars

\* the whole program
Next == Arrive \/ LoopByte \/ Tick \/ ResetBoard
Spec == Init /\ [][Next]_vars

\* ---------------------------------------------------- decoder properties

\* the grammar LF label TAB digit*5 TAB checksum CR: whether c is the symbol
\* expected at position s, given the idx characters captured so far in buf
Captured(buf, idx) == [i \in 1..idx |-> buf[i - 1]]

Expected(s, c, buf, idx) ==
    IF s \in WAIT_C1..WAIT_C6 THEN c \in {SINSTS[s], sinsts[s]}
    ELSE IF s \in {WAIT_SEPARATOR1, WAIT_SEPARATOR2} THEN c = TAB
    ELSE IF s \in WAIT_D1..WAIT_D5 THEN c \in 48..57
    ELSE IF s = WAIT_CHECKSUM THEN c = MeterChecksum(Captured(buf, idx))
    ELSE IF s = WAIT_CR THEN c = CR
    ELSE c = LF

AwaitStart == (msgState = WAIT_LF) /\ (buff_index = 0)

\* C1 as stated: at every grammar position after LF (label, separator, digit,
\* checksum, terminator) a byte that is not the expected symbol puts the decoder
\* back in await-start (WAIT_LF, buff_index = 0) and the call returns false.
C1_ResyncAtEveryPosition ==
    [][(msgState \in WAIT_C1..WAIT_CR /\ ~Expected(msgState, inChar', buffer, buff_index))
          => (AwaitStart' /\ ~ret')]_vars

\* C1 amended: a byte other than NUL that is not the expected symbol, at a label,
\* separator, digit or terminator position, puts the decoder back in await-start
\* and the call returns false; at the checksum position every byte other than NUL
\* is captured and the decoder waits for CR, a wrong checksum being rejected by
\* the call on the next byte; NUL changes nothing; the call returns true only on
\* CR at the terminator position with a matching checksum.
C1_Resync ==
    [][/\ (/\ msgState \in (WAIT_C1..WAIT_CR) \ {WAIT_CHECKSUM}
           /\ inChar' # NUL
           /\ ~Expected(msgState, inChar', buffer, buff_index))
          => (AwaitStart' /\ ~ret')
       /\ (msgState = WAIT_CHECKSUM /\ inChar' # NUL)
          => (msgState' = WAIT_CR /\ buff_index' = buff_index + 1 /\ ~ret')
       /\ (/\ msgState = WAIT_CR
           /\ inChar' # NUL
           /\ ~Expected(WAIT_CHECKSUM, buffer[buff_index - 1], buffer, buff_index - 1))
          => (AwaitStart' /\ ~ret')
       /\ (inChar' = NUL) => (UNCHANGED decoderVars /\ ~ret')
       /\ ret' => (msgState = WAIT_CR /\ inChar' = CR)]_vars

\* a junk byte arrived at the third digit and the decoder is back in await-start
C1_Witness ==
    (was = WAIT_D3) /\ (inChar = 88) /\ AwaitStart /\ ~ret

\* C2 as stated: in every decoder state the byte LF leaves the decoder waiting
\* for the first label character (WAIT_C1) with an empty buffer.
C2_LFAlwaysStartsFrame ==
    [][(inChar' = LF) => (msgState' = WAIT_C1 /\ buff_index' = 0)]_vars

\* C3: on CR at the terminator position the call returns true exactly when the
\* captured checksum byte buffer[13] equals ((sum of buffer[0..12]) & 0x3F) + 0x20.
C3_ChecksumExactness ==
    [][(msgState = WAIT_CR /\ inChar' = CR)
          => (ret' = (buffer[13] = MeterChecksum(Captured(buffer, 13))))]_vars

\* CR arrived at the terminator position and the frame was accepted
C3_Witness ==
    (was = WAIT_CR) /\ (inChar = CR) /\ ret

\* the bytes of the burst already passed to the decoder
consumed == Len(frame) - Len(linky)

\* the value the five digit characters of frame f spell
FrameValue(f) ==
    (f[9] - 48) * 10000 + (f[10] - 48) * 1000 + (f[11] - 48) * 100
        + (f[12] - 48) * 10 + (f[13] - 48)

\* f is LF SINSTS TAB d1..d5 TAB k CR for some byte k
IsSinstsFrame(f) ==
    /\ Len(f) = 16
    /\ f[1] = LF
    /\ SubSeq(f, 2, 7) = SINSTS
    /\ f[8] = TAB
    /\ \A i \in 9..13 : f[i] \in 48..57
    /\ f[14] = TAB
    /\ f[16] = CR

RightChecksum(f) == f[15] = MeterChecksum(SubSeq(f, 2, 14))

\* what C4 says of a frame fed from await-start: false before CR; on CR true
\* exactly for the right checksum, with getData() the value of the digits; and
\* await-start again afterwards
FrameOutcome ==
    /\ (consumed \in 1..15) => ~ret
    /\ (consumed = 16)
          => /\ ret = RightChecksum(frame)
             /\ ret => (getData(buffer) = FrameValue(frame))
             /\ AwaitStart

\* C4 as stated: from await-start, LF SINSTS TAB d1..d5 TAB k CR gives false for
\* every byte before CR; on CR true and getData() = d1..d5 when k is the correct
\* checksum, false for any other byte k; await-start afterwards in both cases.
C4_FrameAnyChecksum ==
    (start = WAIT_LF /\ IsSinstsFrame(frame)) => FrameOutcome

\* C4 amended: the same, for every checksum byte k other than NUL.
C4_Frame ==
    (start = WAIT_LF /\ IsSinstsFrame(frame) /\ frame[15] # NUL) => FrameOutcome

\* the frame for 00123 was fed from await-start, accepted, and read as 123
C4_Witness ==
    /\ start = WAIT_LF
    /\ frame = Frame(SINSTS, 123)
    /\ linky = <<>>
    /\ ret
    /\ getData(buffer) = 123
    /\ AwaitStart

\* C8: a valid frame fed from await-start is accepted and read as its own five
\* digits, whatever the buffer held before.
C8_NoStateLeakage ==
    (start = WAIT_LF /\ frame \in ValidFrames /\ linky = <<>>)
        => (ret /\ getData(buffer) = FrameValue(frame))

\* the frame for 123 was accepted while the buffer still held the digits 10000
C8_Witness ==
    /\ start = WAIT_LF
    /\ stale = 10000
    /\ frame \in ValidFrames
    /\ FrameValue(frame) = 123
    /\ linky = <<>>
    /\ ret
    /\ getData(buffer) = 123

\* ------------------------------------------------- controller properties

\* a step that is one turn of the while loop of loop()
LoopStep == ~resetDue /\ (linky # <<>>) /\ (linky' = Tail(linky))

\* a turn in which isNewMsgInBuffer returned true: a controller decision
DecisionStep == LoopStep /\ ret'

\* C5: a byte for which isNewMsgInBuffer returns false leaves the controller
\* state, the index, the dimmer, both energy totals and the decision timestamp
\* unchanged; a byte for which it returns true runs the controller once on the
\* reading just decoded.
C5_NoErrorReachesActuator ==
    [][LoopStep =>
          IF ret'
          THEN Control' = processElectricalConsumption(Control, getData(buffer'), millis)
          ELSE UNCHANGED controlVars]_vars

\* a frame with a wrong checksum was rejected on CR while the dimmer was ON
C5_Witness ==
    /\ was = WAIT_CR
    /\ inChar = CR
    /\ ~ret
    /\ linky = <<>>
    /\ dimmer.state = ON
    /\ dimmerPwrIndex > 0

\* C6: the control index is always a row of the calibration table, 0 .. 30.
C6_Clamping ==
    dimmerPwrIndex \in 0..(MAX_DIMMER_PWR_INDEX - 1)

\* a decision on reading 0 was taken while Incrementing at the last row
C6_Witness ==
    /\ ret
    /\ linky = <<>>
    /\ getData(buffer) = 0
    /\ old = [dimmerState |-> DIMMER_INCREMENTATION,
              dimmerPwrIndex |-> MAX_DIMMER_PWR_INDEX - 1]
    /\ dimmerPwrIndex = MAX_DIMMER_PWR_INDEX - 1

\* C7 as stated: on a reading of 0, from Idle or Incrementing, the index grows by
\* one as long as the table watts at the index do not exceed the reading, and
\* once they do the controller goes to Wait; the index never exceeds 30.
C7_ConvergenceAsStated ==
    [][(/\ DecisionStep
        /\ getData(buffer') = 0
        /\ dimmerState \in {DIMMER_IDLE, DIMMER_INCREMENTATION})
          => /\ IF Watts(dimmerPwrIndex) > 0
                THEN dimmerState' = DIMMER_WAIT
                ELSE dimmerPwrIndex' = dimmerPwrIndex + 1
             /\ dimmerPwrIndex' <= MAX_DIMMER_PWR_INDEX - 1]_vars

\* C7 amended: on a reading of 0, from Idle or Incrementing, the controller is
\* Incrementing afterwards and the index has grown by one, except at the last
\* row 30 where it stays; it leaves Incrementing only on a nonzero reading r: to
\* Wait with index max(index - 1, 0) when the table watts exceed r, else to Idle
\* with index 0; the index never exceeds 30.
C7_Convergence ==
    [][/\ (/\ DecisionStep
           /\ getData(buffer') = 0
           /\ dimmerState \in {DIMMER_IDLE, DIMMER_INCREMENTATION})
          => /\ dimmerState' = DIMMER_INCREMENTATION
             /\ dimmerPwrIndex' =
                    IF dimmerPwrIndex = MAX_DIMMER_PWR_INDEX - 1
                    THEN MAX_DIMMER_PWR_INDEX - 1 ELSE dimmerPwrIndex + 1
       /\ (/\ DecisionStep
           /\ getData(buffer') > 0
           /\ dimmerState = DIMMER_INCREMENTATION)
          => IF Watts(dimmerPwrIndex) > getData(buffer')
             THEN /\ dimmerState' = DIMMER_WAIT
                  /\ dimmerPwrIndex' = IF dimmerPwrIndex > 0 THEN dimmerPwrIndex - 1 ELSE 0
             ELSE /\ dimmerState' = DIMMER_IDLE
                  /\ dimmerPwrIndex' = 0
       /\ DecisionStep => (dimmerPwrIndex' <= MAX_DIMMER_PWR_INDEX - 1)]_vars

\* Incrementing at row 1 (32 W), a reading of 0 led to Incrementing at row 2
C7_Witness ==
    /\ ret
    /\ linky = <<>>
    /\ getData(buffer) = 0
    /\ old = [dimmerState |-> DIMMER_INCREMENTATION, dimmerPwrIndex |-> 1]
    /\ dimmerState = DIMMER_INCREMENTATION
    /\ dimmerPwrIndex = 2

\* C9: on every decision, with elapsed = now - previous and w the table watts of
\* the index held before the decision: the routed total grows by w * elapsed if
\* the reading is 0; else the network total grows by reading * elapsed if w is
\* not 0; nothing else changes in the totals; previous becomes now.  (Totals in
\* W.ms, that is Wh * 3600000.)
C9_EnergyAccounting ==
    [][DecisionStep =>
          LET r == getData(buffer')
              e == millis - previous
              w == Watts(dimmerPwrIndex)
          IN  /\ cumulRoutedPowerWh' =
                     cumulRoutedPowerWh + (IF r = 0 THEN w * e ELSE 0)
              /\ cumulNetworkPowerWh' =
                     cumulNetworkPowerWh + (IF r # 0 /\ w # 0 THEN r * e ELSE 0)
              /\ previous' = millis]_vars

\* one tick after the previous decision a reading of 0 moved the index from a row
\* to another of different watts, and the routed total is the old row's share
C9_Witness ==
    /\ ret
    /\ linky = <<>>
    /\ getData(buffer) = 0
    /\ previous = millis
    /\ Watts(old.dimmerPwrIndex) # Watts(dimmerPwrIndex)
    /\ Watts(old.dimmerPwrIndex) > 0
    /\ cumulRoutedPowerWh = Watts(old.dimmerPwrIndex) * TickStep
    /\ cumulNetworkPowerWh = 0

\* C10: the dimmer is OFF exactly when the table watts at the current index are
\* 0, and the percentage the dimmer reports is the table's percent at that index.
C10_ActuatorMapping ==
    /\ (dimmer.state = OFF) <=> (Watts(dimmerPwrIndex) = 0)
    /\ getPower(dimmer) = Percent(dimmerPwrIndex)

\* a decision took the index from row 5 to row 0 and switched the dimmer OFF
C10_Witness ==
    /\ ret
    /\ linky = <<>>
    /\ old.dimmerPwrIndex = 5
    /\ dimmerPwrIndex = 0
    /\ dimmer.state = OFF

\* ------------------------------------------- decoder properties, continued

\* C11: a NUL byte passed to isNewMsgInBuffer returns false and leaves msgState,
\* buff_index and the buffer unchanged, in every decoder state.
C11_NulIgnored ==
    [][(inChar' = NUL) => (~ret' /\ UNCHANGED decoderVars)]_vars

\* NUL arrived where the checksum was awaited and the decoder still awaits it
C11_Witness ==
    /\ inChar = NUL
    /\ was = WAIT_CHECKSUM
    /\ msgState = WAIT_CHECKSUM
    /\ buff_index = 13
    /\ ~ret

\* the number of characters captured when the decoder is at position s
MatchedAt(s) == IF s \in {WAIT_LF, WAIT_C1} THEN 0 ELSE s - 1

\* C12: buff_index is always the number of characters matched since the last
\* reset (0 in WAIT_LF and WAIT_C1, msgState - 1 afterwards) and never exceeds
\* 14; every call that captures a character writes it at an index below
\* MAX_BUFFER_LENGTH, namely at the old buff_index.
C12_BufferInvariant ==
    /\ [](buff_index = MatchedAt(msgState) /\ buff_index <= 14)
    /\ [][(buff_index' = buff_index + 1)
             => /\ buff_index < MAX_BUFFER_LENGTH
                /\ buffer' = [buffer EXCEPT ![buff_index] = inChar']]_vars

\* the checksum byte was captured: the buffer holds its 14 characters
C12_Witness ==
    /\ was = WAIT_CHECKSUM
    /\ msgState = WAIT_CR
    /\ buff_index = 14
    /\ buffer[13] = inChar

\* ---------------------------------------- controller properties, continued

\* the dwell in Stabilized has expired at the time of the decision
DwellExpired == (millis - dimmerStabilized) > STABILIZED_TIMER

\* C13: in Incrementing, in Decrementing and in Stabilized whose dwell has not
\* expired, a reading r > 0 sends the controller to Wait with index
\* max(index - 1, 0) when the table watts of the current index are strictly
\* greater than r, and otherwise to Idle with index 0.
C13_ThreeWayBranch ==
    [][(/\ DecisionStep
        /\ getData(buffer') > 0
        /\ \/ dimmerState \in {DIMMER_INCREMENTATION, DIMMER_DECREMENTATION}
           \/ (dimmerState = DIMMER_STABILIZED /\ ~DwellExpired))
          => IF dimmerPwr[dimmerPwrIndex][2] > getData(buffer')
             THEN /\ dimmerState' = DIMMER_WAIT
                  /\ dimmerPwrIndex' = IF dimmerPwrIndex > 0 THEN dimmerPwrIndex - 1 ELSE 0
             ELSE /\ dimmerState' = DIMMER_IDLE
                  /\ dimmerPwrIndex' = 0]_vars

\* Incrementing at row 0 (0 W), the reading 50 led to Idle at row 0
C13_Witness ==
    /\ ret
    /\ linky = <<>>
    /\ getData(buffer) = 50
    /\ old = [dimmerState |-> DIMMER_INCREMENTATION, dimmerPwrIndex |-> 0]
    /\ dimmerState = DIMMER_IDLE
    /\ dimmerPwrIndex = 0

\* C14: dimmerStabilized is written only when Decrementing meets a reading of 0,
\* which enters Stabilized with the index unchanged, and it then holds the time of
\* that decision; a decision taken in Stabilized more than STABILIZED_TIMER after
\* it moves to Incrementing with the index unchanged whatever the reading, and a
\* decision taken in Stabilized before that never moves to Incrementing.
C14_Reprobe ==
    [][DecisionStep =>
          /\ IF dimmerState = DIMMER_DECREMENTATION /\ getData(buffer') = 0
             THEN /\ dimmerState' = DIMMER_STABILIZED
                  /\ dimmerStabilized' = millis
                  /\ dimmerPwrIndex' = dimmerPwrIndex
             ELSE dimmerStabilized' = dimmerStabilized
          /\ (dimmerState = DIMMER_STABILIZED)
                => IF millis - dimmerStabilized > STABILIZED_TIMER
                   THEN /\ dimmerState' = DIMMER_INCREMENTATION
                        /\ dimmerPwrIndex' = dimmerPwrIndex
                   ELSE dimmerState' # DIMMER_INCREMENTATION]_vars

\* Stabilized at row 1 since time 0 and still Stabilized after the decision taken
\* one tick later, a reading of 50 taken two ticks after time 0 led to
\* Incrementing at row 1
C14_Witness ==
    /\ ret
    /\ linky = <<>>
    /\ getData(buffer) = 50
    /\ old = [dimmerState |-> DIMMER_STABILIZED, dimmerPwrIndex |-> 1]
    /\ dimmerStabilized = 0
    /\ millis = 2 * TickStep
    /\ dimmerState = DIMMER_INCREMENTATION
    /\ dimmerPwrIndex = 1

\* C15: a decision taken in Wait always leads to Decrementing with the index
\* unchanged, whatever the reading; and Decrementing is entered only by a
\* decision taken in Wait.
C15_WaitOneDecision ==
    [][/\ (DecisionStep /\ dimmerState = DIMMER_WAIT)
          => (dimmerState' = DIMMER_DECREMENTATION /\ dimmerPwrIndex' = dimmerPwrIndex)
       /\ (/\ dimmerState' = DIMMER_DECREMENTATION
           /\ (DecisionStep \/ dimmerState # DIMMER_DECREMENTATION))
          => (DecisionStep /\ dimmerState = DIMMER_WAIT)]_vars

\* Wait at row 1 (32 W), the reading 50 led to Decrementing at row 1
C15_Witness ==
    /\ ret
    /\ linky = <<>>
    /\ getData(buffer) = 50
    /\ old = [dimmerState |-> DIMMER_WAIT, dimmerPwrIndex |-> 1]
    /\ dimmerState = DIMMER_DECREMENTATION
    /\ dimmerPwrIndex = 1

\* -------------------------------------------------- the label, both builds

\* the mnemonic of historic mode in upper and in lower case
PAPP == <<80, 65, 80, 80>>
papp == <<112, 97, 112, 112>>

\* the call just made captured its character
Accepted == buff_index' = buff_index + 1

\* the label in the build with STANDARD_TIC: at each of the six label positions
\* a character is captured exactly when it is the letter of SINSTS for that
\* position, in upper or in lower case
StandardLabelMatch ==
    [][(msgState \in WAIT_C1..WAIT_C6)
          => (Accepted <=> inChar' \in {SINSTS[msgState], sinsts[msgState]})]_vars

\* C16 as stated, for the build without STANDARD_TIC: at each of the four label
\* positions a character is captured exactly when it is the letter of PAPP for
\* that position, in upper or in lower case.
C16_LabelCaseInsensitive ==
    [][(msgState \in WAIT_C1..WAIT_C4)
          => (Accepted <=> inChar' \in {PAPP[msgState], papp[msgState]})]_vars

\* ------------------------------------------------------ the energy totals

\* the controller with both energy totals replaced by t
WithTotals(t) ==
    [Control EXCEPT !.cumulRoutedPowerWh = t, !.cumulNetworkPowerWh = t]

\* the state and the index the controller would choose on reading r, from k
Chosen(k, r) ==
    LET n == processElectricalConsumption(k, r, millis)
    IN  <<n.dimmerState, n.dimmerPwrIndex>>

\* C17: neither energy total ever decreases while the board runs (a step that
\* lowers one is the reboot, which clears them); and the state and the index the
\* controller chooses on a reading are the same whatever the totals hold.
C17_TotalsMonotonic ==
    /\ [][(\/ cumulRoutedPowerWh' < cumulRoutedPowerWh
           \/ cumulNetworkPowerWh' < cumulNetworkPowerWh)
             => (resetDue /\ millis' = 0)]_vars
    /\ [](linky = <<>> =>
             \A r \in {0, 31, 50, 494} :
                 Chosen(WithTotals(1000000000), r) = Chosen(Control, r))

\* both totals have grown, the network total on the last decision
C17_Witness ==
    /\ ret
    /\ linky = <<>>
    /\ getData(buffer) = 31
    /\ previous = 2 * TickStep
    /\ cumulRoutedPowerWh = Watts(1) * TickStep
    /\ cumulNetworkPowerWh = 31 * TickStep

\* ------------------------------------------------------ resynchronisation

\* C18: whatever state the decoder was in when a complete valid frame arrived,
\* it is in await-start once the frame has been fed; and a valid frame that
\* arrived in await-start has been accepted.  Hence a valid frame that follows
\* a valid frame is accepted, and noise costs at most one valid frame.
C18_BoundedResync ==
    (frame \in ValidFrames /\ linky = <<>>)
        => (AwaitStart /\ (start = WAIT_LF => ret))

\* a valid frame arrived while the checksum of a cut frame was awaited: it was
\* lost and the decoder is in await-start
C18_Witness ==
    /\ frame \in ValidFrames
    /\ linky = <<>>
    /\ start = WAIT_CHECKSUM
    /\ ~ret
    /\ AwaitStart

\* ---------------------------------------------------- shutdown under import

\* the number of decisions on positive readings the controller is at most away
\* from Idle: two for each table row still to go down, one more in Wait and in
\* Stabilized
Rank ==
    IF dimmerState = DIMMER_IDLE THEN 0
    ELSE IF dimmerState \in {DIMMER_WAIT, DIMMER_STABILIZED} THEN 2 * dimmerPwrIndex + 2
    ELSE 2 * dimmerPwrIndex + 1

\* C19: every decision on a reading > 0 brings the controller nearer to Idle (Rank
\* decreases, and it is at most 62), and once in Idle such a decision leaves it in
\* Idle with index 0 and the dimmer OFF: after at most 62 decisions on positive
\* readings the controller is in Idle with index 0 and the dimmer OFF, and stays so.
C19_ShutdownUnderImport ==
    /\ [](Rank <= 2 * MAX_DIMMER_PWR_INDEX)
    /\ [][(DecisionStep /\ getData(buffer') > 0)
             => /\ (Rank > 0) => (Rank' < Rank)
                /\ (Rank = 0 \/ Rank' = 0)
                      => /\ dimmerState' = DIMMER_IDLE
                         /\ dimmerPwrIndex' = 0
                         /\ dimmer'.state = OFF]_vars

\* the way down ended: Decrementing at row 0, the reading 31 led to Idle, OFF
C19_Witness ==
    /\ ret
    /\ linky = <<>>
    /\ getData(buffer) = 31
    /\ old = [dimmerState |-> DIMMER_DECREMENTATION, dimmerPwrIndex |-> 0]
    /\ dimmerState = DIMMER_IDLE
    /\ dimmerPwrIndex = 0
    /\ dimmer.state = OFF

\* ----------------------------------------------------------- Idle means off

\* C20: whenever the controller is in Idle the index is 0, the dimmer is OFF and
\* the percentage it reports is 0.
C20_IdleMeansOff ==
    (dimmerState = DIMMER_IDLE)
        => /\ dimmerPwrIndex = 0
           /\ dimmer.state = OFF
           /\ getPower(dimmer) = 0

\* Stabilized at row 2 (49 W, dimmer ON), the reading 50 led to Idle
C20_Witness ==
    /\ ret
    /\ linky = <<>>
    /\ getData(buffer) = 50
    /\ old = [dimmerState |-> DIMMER_STABILIZED, dimmerPwrIndex |-> 2]
    /\ dimmerState = DIMMER_IDLE
    /\ dimmerPwrIndex = 0
    /\ dimmer.state = OFF

====
